---- MODULE Spec2Model ----
(***************************************************************************)
(* Job/session lifecycle of the DamPDF API: the session store with its two *)
(* backends (Redis, in-process dictionary), the upload, start, status and  *)
(* download handlers, and the background task that runs the transform.    *)
(*                                                                         *)
(* Every handler segment is a function from a system state (a record with  *)
(* the fields of State) to the next one; an action applies one segment to  *)
(* the variables.  On the Redis backend every store call is an await that  *)
(* suspends the coroutine, so a handler is a chain of segments; on the     *)
(* in-process backend the awaits of the session manager never suspend, so  *)
(* the same segments run back to back in one action.                       *)
(***************************************************************************)
EXTENDS Integers, Sequences, FiniteSets, TLC

VARIABLES
    phase,       \* "startup" until SessionManager.connect has run, then "serving"
    redis_pool,  \* SessionManager.redis_pool: TRUE for a pool, FALSE for None
    store,       \* the entries of Redis, or SessionManager._in_memory_store
    heap,        \* the dictionary objects upload created (in-process backend)
    files,       \* the paths that exist on disk
    call,        \* start_processing requests and their background tasks
    dl,          \* the download_file request between its two file system calls
    now,         \* the clock, in hours
    ticks,       \* how often the clock advanced
    removals,    \* how many files were removed out of band
    uploads,     \* session ids generated so far
    resp,        \* the response the last finished request returned
    last_put,    \* per key, the dictionary and expiry of the last successful put
    acked,       \* the jobs for which a start_processing call returned success
    usage,       \* the usage events: the Redis list "usage_tracking", or _usage_tracking
    twin,        \* a second system run in lockstep (EquivSpec only)
    calc         \* the sizes and the file_info of one process_file call (RatioSpec only)

vars == <<phase, redis_pool, store, heap, files, call, dl, now, ticks, removals, uploads,
          resp, last_put, acked, usage, twin, calc>>

\* ------------------------------------------------------------------ bounds
NumJobs == 2       \* session ids a request may name
MaxUploads == 1    \* uploads that are made
MaxCalls == 2      \* start_processing requests that find their session
MaxTicks == 1      \* clock advances
MaxRemovals == 1   \* files removed from disk out of band
MaxSize == 7       \* largest file size, in bytes, process_file measures
MaxUsage == 1      \* usage events, beyond one for each upload, after which no further
                   \* download is requested

\* ------------------------------------------------------- program constants
TEMP_FILE_EXPIRE_HOURS == 1
PROCESSED_FILE_EXPIRE_HOURS == 24

None == "None"

QUEUED == "queued"
PROCESSING == "processing"
COMPLETED == "completed"
FAILED == "failed"

IMAGE_COMPRESS == "image-compress"
PDF_COMPRESS == "pdf-compress"
DOCX_TO_PDF == "docx-to-pdf"
XLSX_TO_PDF == "xlsx-to-pdf"
ToolType == {IMAGE_COMPRESS, PDF_COMPRESS, DOCX_TO_PDF, XLSX_TO_PDF}

Jobs == 1..NumJobs
Calls == 1..MaxCalls

\* A store key: the session id as the handler passes it.  The Redis backend
\* prefixes every key with "session:", the same for all keys.
SessionKey(j) == <<"", j>>
ProcessedKey(j) == <<"processed:", j>>
Keys == {SessionKey(j) : j \in Jobs} \cup {ProcessedKey(j) : j \in Jobs}

\* Paths of artifacts on disk; NoPath stands for an absent path (None).
InputPath(j) == <<"in", j>>
OutputPath(c) == <<"out", c>>
NoPath == <<>>

\* A datetime value is kept by its type alone: <<"datetime">> for a datetime
\* object, <<"str">> for its string.
\* An absent datetime, an absent file_info, an absent dictionary (None) and
\* an absent store entry.
NoTime == <<>>
NoInfo == [filename |-> None, created_at |-> NoTime]
NoData == [status |-> None, progress |-> 0, message |-> None, error |-> None,
           output_path |-> NoPath, file_info |-> NoInfo, tool_type |-> None,
           file_path |-> NoPath, upload_time |-> NoTime]
NoEntry == [data |-> NoData, ref |-> 0, expires_at |-> -1]
NoPut == [value |-> NoData, expires_at |-> -1]

\* Durations the clock may advance by in one step, in hours.
TickSteps == {TEMP_FILE_EXPIRE_HOURS, PROCESSED_FILE_EXPIRE_HOURS}

\* ------------------------------------------------------------- JSON codec
\* json.dumps(data, default=str): a datetime is not JSON, so default=str
\* turns it into its string; everything else keeps its shape.
default_str(v) ==
    IF v = <<"datetime">> THEN <<"str">> ELSE v

json_dumps(data) ==
    [data EXCEPT !.upload_time = default_str(@),
                 !.file_info = [@ EXCEPT !.created_at = default_str(@)]]

\* json.loads: objects, strings and numbers come back as they were written.
json_loads(text) == text

\* ------------------------------------------------------------ the store
\* An entry of the store: on Redis `data` is the JSON text, on the
\* in-process backend `ref` names the dictionary object the entry holds
\* (the one upload created for that job; every handler of the job shares it).
Present(e) == e.expires_at # -1

\* The pass below removing nothing: a fault C26 detects.
cleanup_expired_sessions_skipped(st, t) == st

\* SessionManager._cleanup_expired_sessions on the dictionary st at time t
cleanup_expired_sessions(st, t) ==
    [k \in Keys |-> IF Present(st[k]) /\ st[k].expires_at < t THEN NoEntry ELSE st[k]]

\* SessionManager.store_session_data, when it does not raise.  `data` is
\* the content of the dictionary passed in, `j` the job whose dictionary
\* object it is.
store_session_data(s, k, j, data, expire_hours) ==
    LET put == [value |-> data, expires_at |-> s.now + expire_hours] IN
    IF s.redis_pool
    THEN [s EXCEPT !.store[k] = [data |-> json_dumps(data), ref |-> 0,
                                 expires_at |-> s.now + expire_hours],
                   !.last_put[k] = put]
    ELSE [s EXCEPT !.store = cleanup_expired_sessions(
                       [s.store EXCEPT ![k] = [data |-> NoData, ref |-> j,
                                               expires_at |-> s.now + expire_hours]],
                       s.now),
                   !.last_put[k] = put]

\* The operator below with an exception of Redis not turned into None: a
\* fault C27 detects.
get_found_unguarded(s, k, ok) ==
    Present(s.store[k]) /\ s.store[k].expires_at > s.now

\* SessionManager.get_session_data: whether it returns a dictionary (not
\* when the key is absent or expired, or when Redis raised: ok = FALSE) ...
get_found(s, k, ok) ==
    LET e == s.store[k] IN
    IF s.redis_pool
    THEN ok /\ Present(e) /\ e.expires_at > s.now
    ELSE Present(e) /\ e.expires_at > s.now

\* ... the dictionary it returns (NoData for None) ...
get_value(s, k, ok) ==
    LET e == s.store[k] IN
    IF ~get_found(s, k, ok) THEN NoData
    ELSE IF s.redis_pool THEN json_loads(e.data) ELSE s.heap[e.ref]

\* ... and the state it leaves: the in-process backend deletes an expired
\* entry it finds.
\* The segment below trying Redis again when it runs without a pool: a fault
\* C17 detects.
get_state_reconnects(s, k) ==
    IF s.redis_pool THEN s ELSE [s EXCEPT !.redis_pool = TRUE]

get_state(s, k) ==
    LET e == s.store[k] IN
    IF ~s.redis_pool /\ Present(e) /\ ~(e.expires_at > s.now)
    THEN [s EXCEPT !.store[k] = NoEntry]
    ELSE s

\* SessionManager.delete_session: the state after it, and its result.
delete_session_state(s, k, ok) ==
    IF s.redis_pool
    THEN IF ok THEN [s EXCEPT !.store[k] = NoEntry] ELSE s
    ELSE [s EXCEPT !.store[k] = NoEntry]

delete_session_result(s, k, ok) ==
    IF s.redis_pool
    THEN ok /\ Present(s.store[k]) /\ s.store[k].expires_at > s.now
    ELSE Present(s.store[k])

\* SessionManager.track_usage: the event is pushed to the head of the Redis
\* list, which is trimmed to its first 10000 elements, or appended to
\* _usage_tracking, which is cut to its last 1000.  ok = FALSE when the
\* lpush raises; the exception is logged and not raised.  (When only the
\* ltrim raises, the event stays in the list.)
usage_data(session_id, tool_type, file_size) ==
    [timestamp |-> <<"datetime">>, session_id |-> session_id, user_id |-> "anonymous",
     tool_type |-> tool_type, file_size |-> file_size]

track_usage(s, session_id, tool_type, file_size, ok) ==
    LET e == usage_data(session_id, tool_type, file_size) IN
    IF s.redis_pool
    THEN IF ok
         THEN LET pushed == <<[e EXCEPT !.timestamp = default_str(@)]>> \o s.usage
              IN  [s EXCEPT !.usage = SubSeq(pushed, 1, IF Len(pushed) < 10000
                                                        THEN Len(pushed) ELSE 10000)]
         ELSE s
    ELSE LET appended == Append(s.usage, e)
         IN  [s EXCEPT !.usage = IF Len(appended) > 1000
                                 THEN SubSeq(appended, Len(appended) - 999, Len(appended))
                                 ELSE appended]

\* ------------------------------------------------------- handler locals
\* The sizes process_file reads and the compression_ratio it computes from
\* them, a float kept as the exact fraction num/den.
NoCalc == [pc |-> "sizes", original_size |-> 0, processed_size |-> 0,
           compression_ratio |-> [num |-> 0, den |-> 1]]

\* ((original_size - processed_size) / original_size) * 100
\*     if original_size > 0 else 0
ratio_of(original_size, processed_size) ==
    IF original_size > 0
    THEN [num |-> (original_size - processed_size) * 100, den |-> original_size]
    ELSE [num |-> 0, den |-> 1]

\* The entry of file_info without the clamp: a fault C19 detects.
max_zero_unclamped(r) == r

\* max(0, compression_ratio)
max_zero(r) == IF r.num * r.den < 0 THEN [num |-> 0, den |-> 1] ELSE r

IdleCall == [pc |-> "idle", job |-> 0, tool |-> None, sd |-> NoData,
             out |-> NoPath, err |-> None]
IdleDl == [pc |-> "idle", job |-> 0, path |-> NoPath, tool |-> None]
NoResp == [op |-> None, job |-> 0, code |-> 0, detail |-> None, status |-> None,
           progress |-> 0, message |-> None, error |-> None]

\* The dictionary a handler's session_data variable is bound to: a private
\* copy out of json.loads on Redis, the shared object on the in-process
\* backend.
session_data(s, c) ==
    IF s.redis_pool THEN s.call[c].sd ELSE s.heap[s.call[c].job]

\* The assignments below made to one dictionary that all sessions of the
\* in-process backend share: a fault C28 detects.
assign_shared(s, c, d) ==
    IF s.redis_pool
    THEN [s EXCEPT !.call[c].sd = d]
    ELSE [s EXCEPT !.heap = [j \in Jobs |-> d]]

\* session_data[...] = ...: assignments to that dictionary.
assign(s, c, d) ==
    IF s.redis_pool
    THEN [s EXCEPT !.call[c].sd = d]
    ELSE [s EXCEPT !.heap[s.call[c].job] = d]

\* session_data = await get_session_data(...): binding the variable.
bind(s, c, val) ==
    IF s.redis_pool THEN [s EXCEPT !.call[c].sd = val] ELSE s

\* ------------------------------------------------------------ responses
Resp(op, j, code, detail) ==
    [NoResp EXCEPT !.op = op, !.job = j, !.code = code, !.detail = detail]

SessionNotFound == "Session not found or expired"
InputNotFound == "File not found"
DownloadNotFound == "File not found or expired"
ArtifactNotFound == "Processed file not found"
InternalError == "INTERNAL_ERROR"

\* ProcessingStatusResponse of get_processing_status
StatusResp(j, d) ==
    [op |-> "status", job |-> j, code |-> 200, detail |-> None,
     status |-> IF d.status = None THEN QUEUED ELSE d.status,
     progress |-> d.progress,
     message |-> IF d.message = None THEN "" ELSE d.message,
     error |-> d.error]

\* --------------------------------------------------------------- upload
\* tool_type is a free-form string of the upload form: a value outside ToolType
OtherTool == "pdf-merge"
UploadTools == {IMAGE_COMPRESS, DOCX_TO_PDF, OtherTool}
RequestTools == {IMAGE_COMPRESS, DOCX_TO_PDF}
ContentTypes == {"image/jpeg", "application/msword"}

valid_types ==
    [t \in ToolType |->
        CASE t = IMAGE_COMPRESS -> {"image/jpeg", "image/png", "image/webp", "image/gif"}
          [] t = PDF_COMPRESS -> {"application/pdf"}
          [] t = DOCX_TO_PDF ->
               {"application/vnd.openxmlformats-officedocument.wordprocessingml.document",
                "application/msword"}
          [] t = XLSX_TO_PDF ->
               {"application/vnd.openxmlformats-officedocument.spreadsheetml.sheet",
                "application/vnd.ms-excel"}]

\* validate_file_type raises UnsupportedFileTypeError
validate_file_type_raises(content_type, tool_type) ==
    tool_type \in DOMAIN valid_types /\ content_type \notin valid_types[tool_type]

\* The session_data dictionary upload_file builds
new_session(j, tool_type) ==
    [NoData EXCEPT !.file_path = InputPath(j), !.tool_type = tool_type,
                   !.status = QUEUED, !.upload_time = <<"datetime">>,
                   !.progress = 0]

\* upload_file: ok = FALSE when the Redis write raises, tracked = FALSE when
\* the push of the usage event does.  The awaits of track_usage touch the
\* usage list alone, which no handler reads.
upload_file(s, tool_type, content_type, ok, tracked) ==
    LET j == s.uploads + 1
        d == new_session(j, tool_type)
        saved == [s EXCEPT !.files = @ \cup {InputPath(j)}]
    IN  IF validate_file_type_raises(content_type, tool_type)
        THEN [s EXCEPT !.resp = Resp("upload", 0, 415, "UNSUPPORTED_FILE_TYPE")]
        ELSE IF s.redis_pool /\ ~ok
        THEN [s EXCEPT !.resp = Resp("upload", 0, 500, "UPLOAD_ERROR")]
        ELSE [track_usage(
                  store_session_data(
                      [saved EXCEPT !.uploads = j,
                                    !.heap[j] = IF s.redis_pool THEN @ ELSE d],
                      SessionKey(j), j, d, TEMP_FILE_EXPIRE_HOURS),
                  j, tool_type, InputPath(j), tracked)
              EXCEPT !.resp = Resp("upload", j, 200, None)]

\* ------------------------------------------------------ start_processing
\* The assignments below without the one of the status: a fault C3 detects.
processing_started_keeps_status(d) ==
    [d EXCEPT !.progress = 10, !.message = "Processing started"]

\* session_data["status"] = PROCESSING; ["progress"] = 10; ["message"] = ...
processing_started(d) ==
    [d EXCEPT !.status = PROCESSING, !.progress = 10, !.message = "Processing started"]

\* The segment below without the test `if not session_data`: a fault C7
\* detects.
start_get_unchecked(s, c, j, tool_type, ok) ==
    LET k == SessionKey(j)
        s1 == get_state(s, k)
    IN  bind([s1 EXCEPT !.call[c] = [IdleCall EXCEPT !.pc = "s_put", !.job = j,
                                                     !.tool = tool_type],
                        !.resp = NoResp],
             c, get_value(s, k, ok))

\* start_processing up to the await of get_session_data
start_get(s, c, j, tool_type, ok) ==
    LET k == SessionKey(j)
        s1 == get_state(s, k)
    IN  IF ~get_found(s, k, ok)
        THEN [s1 EXCEPT !.resp = Resp("start", j, 404, SessionNotFound)]
        ELSE bind([s1 EXCEPT !.call[c] = [IdleCall EXCEPT !.pc = "s_put", !.job = j,
                                                          !.tool = tool_type],
                             !.resp = NoResp],
                  c, get_value(s, k, ok))

\* The segment below answering success without background_tasks.add_task: a
\* fault C25 detects.
start_put_unscheduled(s, c, ok) ==
    LET j == s.call[c].job
        d == processing_started(session_data(s, c))
        s1 == assign(s, c, d)
    IN  IF s.redis_pool /\ ~ok
        THEN [s1 EXCEPT !.call[c] = IdleCall, !.resp = Resp("start", j, 500, InternalError)]
        ELSE LET s2 == store_session_data(s1, SessionKey(j), j, d, TEMP_FILE_EXPIRE_HOURS)
                 input_path == d.file_path
             IN  IF input_path = NoPath \/ input_path \notin s2.files
                 THEN [s2 EXCEPT !.call[c] = IdleCall, !.resp = Resp("start", j, 404, InputNotFound)]
                 ELSE [s2 EXCEPT !.call[c] = IdleCall,
                                 !.acked = @ \cup {j},
                                 !.resp = [Resp("start", j, 200, None) EXCEPT
                                              !.status = PROCESSING, !.progress = 10,
                                              !.message = "Processing started"]]

\* The segment below with the exception of the write caught and ignored: a
\* fault C13 detects.
start_put_swallows(s, c, ok) ==
    LET j == s.call[c].job
        d == processing_started(session_data(s, c))
        s1 == assign(s, c, d)
        s2 == IF s.redis_pool /\ ~ok THEN s1
              ELSE store_session_data(s1, SessionKey(j), j, d, TEMP_FILE_EXPIRE_HOURS)
        input_path == d.file_path
    IN  IF input_path = NoPath \/ input_path \notin s2.files
        THEN [s2 EXCEPT !.call[c] = IdleCall, !.resp = Resp("start", j, 404, InputNotFound)]
        ELSE [s2 EXCEPT !.call[c] = [@ EXCEPT !.pc = "queued", !.sd = NoData],
                        !.acked = @ \cup {j},
                        !.resp = [Resp("start", j, 200, None) EXCEPT
                                     !.status = PROCESSING, !.progress = 10,
                                     !.message = "Processing started"]]

\* start_processing from there to its return: ok = FALSE when the Redis
\* write raises (the handler answers 500).
start_put(s, c, ok) ==
    LET j == s.call[c].job
        d == processing_started(session_data(s, c))
        s1 == assign(s, c, d)
    IN  IF s.redis_pool /\ ~ok
        THEN [s1 EXCEPT !.call[c] = IdleCall, !.resp = Resp("start", j, 500, InternalError)]
        ELSE LET s2 == store_session_data(s1, SessionKey(j), j, d, TEMP_FILE_EXPIRE_HOURS)
                 input_path == d.file_path
             IN  IF input_path = NoPath \/ input_path \notin s2.files
                 THEN [s2 EXCEPT !.call[c] = IdleCall, !.resp = Resp("start", j, 404, InputNotFound)]
                 ELSE [s2 EXCEPT !.call[c] = [@ EXCEPT !.pc = "queued", !.sd = NoData],
                                 !.acked = @ \cup {j},
                                 !.resp = [Resp("start", j, 200, None) EXCEPT
                                              !.status = PROCESSING, !.progress = 10,
                                              !.message = "Processing started"]]

\* ----------------------------------------------- process_file_background
\* session_data["progress"] = 30; ["message"] = "Processing file..."
processing_file(d) ==
    [d EXCEPT !.progress = 30, !.message = "Processing file..."]

\* the five assignments after process_file returned (output_path, file_info)
completed(d, output_path, file_info) ==
    [d EXCEPT !.status = COMPLETED, !.progress = 100,
              !.message = "Processing complete",
              !.output_path = output_path, !.file_info = file_info]

\* The assignments below without the one of the error: a fault C9 detects.
failed_without_error(d, error) ==
    [d EXCEPT !.status = FAILED]

\* the two assignments of the except branch; error is str(e)
failed(d, error) ==
    [d EXCEPT !.status = FAILED, !.error = error]

\* str(e) of the exceptions the try block can raise
StoreError == "store error"
ProcessError == "Failed to process file"
TimedOut == "Failed to process file: Document conversion timed out after 60 seconds"

\* A task that returned; its slot is not used again.
Finished == [IdleCall EXCEPT !.pc = "done"]

\* the task from its start to the await of get_session_data
bg_get(s, c, ok) ==
    LET k == SessionKey(s.call[c].job)
        s1 == get_state(s, k)
    IN  IF ~get_found(s, k, ok)
        THEN [s1 EXCEPT !.call[c] = Finished]
        ELSE bind([s1 EXCEPT !.call[c].pc = "b_put"], c, get_value(s, k, ok))

\* progress 30 and its store_session_data
bg_put(s, c, ok) ==
    LET j == s.call[c].job
        d == processing_file(session_data(s, c))
        s1 == assign(s, c, d)
    IN  IF s.redis_pool /\ ~ok
        THEN [s1 EXCEPT !.call[c].pc = "f_get", !.call[c].err = StoreError]
        ELSE [store_session_data(s1, SessionKey(j), j, d, TEMP_FILE_EXPIRE_HOURS)
              EXCEPT !.call[c].pc = "transform"]

\* FileProcessor.process_file: what the call can end in.  The bodies of
\* _compress_image and _compress_pdf are coroutine functions handed to
\* run_in_threadpool, which calls them without awaiting the coroutine: no
\* output is written and os.path.getsize(output_path) raises; the call
\* has no timeout, and nothing it waits for can hang.  The LibreOffice
\* conversions write the output, raise (exit code, missing input), or hang:
\* then wait_for gives up after 60 seconds, the subprocess is killed and
\* the conversion raises.
process_file_outcomes(s, c) ==
    IF s.call[c].tool \in {DOCX_TO_PDF, XLSX_TO_PDF}
    THEN IF InputPath(s.call[c].job) \in s.files
         THEN {"returns", "raises", "hangs"}
         ELSE {"raises", "hangs"}
    ELSE {"raises"}

process_file(s, c, outcome) ==
    IF outcome = "returns"
    THEN [s EXCEPT !.files = @ \cup {OutputPath(c)},
                   !.call[c].out = OutputPath(c),
                   !.call[c].tool = None,
                   !.call[c].pc = "c_put"]
    ELSE [s EXCEPT !.call[c].err = IF outcome = "hangs" THEN TimedOut ELSE ProcessError,
                   !.call[c].tool = None,
                   !.call[c].pc = "f_get"]

\* file_info as process_file builds it
file_info_of(output_path) == [filename |-> "output", created_at |-> <<"datetime">>]

\* the result written: COMPLETED with the long expiry
bg_complete(s, c, ok) ==
    LET j == s.call[c].job
        d == completed(session_data(s, c), s.call[c].out, file_info_of(s.call[c].out))
        s1 == assign(s, c, d)
    IN  IF s.redis_pool /\ ~ok
        THEN [s1 EXCEPT !.call[c].pc = "f_get", !.call[c].err = StoreError]
        ELSE [store_session_data(s1, SessionKey(j), j, d, PROCESSED_FILE_EXPIRE_HOURS)
              EXCEPT !.call[c] = Finished]

\* the except branch up to the await of get_session_data
bg_fail_get(s, c, ok) ==
    LET k == SessionKey(s.call[c].job)
        s1 == get_state(s, k)
    IN  IF ~get_found(s, k, ok)
        THEN [s1 EXCEPT !.call[c] = Finished]
        ELSE bind([s1 EXCEPT !.call[c].pc = "f_put"], c, get_value(s, k, ok))

\* FAILED and its store_session_data; a raise of the store is swallowed
bg_fail_put(s, c, ok) ==
    LET j == s.call[c].job
        d == failed(session_data(s, c), s.call[c].err)
        s1 == assign(s, c, d)
    IN  IF s.redis_pool /\ ~ok
        THEN [s1 EXCEPT !.call[c] = Finished]
        ELSE [store_session_data(s1, SessionKey(j), j, d, TEMP_FILE_EXPIRE_HOURS)
              EXCEPT !.call[c] = Finished]

\* ------------------------------------------------- get_processing_status
\* The handler below storing the record it read again, which renews its
\* expiry: a fault C22 detects.
get_processing_status_renews(s, j, ok) ==
    LET k == SessionKey(j)
        s1 == get_state(s, k)
    IN  IF ~get_found(s, k, ok)
        THEN [s1 EXCEPT !.resp = Resp("status", j, 404, SessionNotFound)]
        ELSE [store_session_data(s1, k, j, get_value(s, k, ok), PROCESSED_FILE_EXPIRE_HOURS)
              EXCEPT !.resp = StatusResp(j, get_value(s, k, ok))]

get_processing_status(s, j, ok) ==
    LET k == SessionKey(j)
        s1 == get_state(s, k)
    IN  IF ~get_found(s, k, ok)
        THEN [s1 EXCEPT !.resp = Resp("status", j, 404, SessionNotFound)]
        ELSE [s1 EXCEPT !.resp = StatusResp(j, get_value(s, k, ok))]

\* -------------------------------------------------------- download_file
\* app/api/api_v1/endpoints/download.py up to os.path.exists
download_check(s, j, ok) ==
    LET k == SessionKey(j)
        s1 == get_state(s, k)
        d == get_value(s, k, ok)
    IN  IF ~get_found(s, k, ok)
        THEN [s1 EXCEPT !.resp = Resp("download", j, 404, DownloadNotFound)]
        ELSE IF d.output_path = NoPath \/ d.output_path \notin s1.files
        THEN [s1 EXCEPT !.resp = Resp("download", j, 404, ArtifactNotFound)]
        ELSE [s1 EXCEPT !.dl = [pc |-> "getsize", job |-> j,
                                path |-> d.output_path, tool |-> d.tool_type],
                        !.resp = NoResp]

\* The segment below without the call of track_usage: a fault C12 detects.
download_send_untracked(s, tracked) ==
    IF s.dl.path \notin s.files
    THEN [s EXCEPT !.dl = IdleDl, !.resp = Resp("download", s.dl.job, 500, "Failed to download file")]
    ELSE [s EXCEPT !.dl = IdleDl, !.resp = Resp("download", s.dl.job, 200, None)]

\* ... and from os.path.getsize on: it raises when the file is gone, and
\* the handler turns that into a 500; else the usage event is tracked
\* (tracked = FALSE when its push raises) and the file is served
download_send(s, tracked) ==
    IF s.dl.path \notin s.files
    THEN [s EXCEPT !.dl = IdleDl, !.resp = Resp("download", s.dl.job, 500, "Failed to download file")]
    ELSE [track_usage(s, s.dl.job, s.dl.tool, s.dl.path, tracked)
          EXCEPT !.dl = IdleDl, !.resp = Resp("download", s.dl.job, 200, None)]

\* dampdf-railway/app/api/api_v1/endpoints/download.py: it reads the key
\* "processed:<session_id>"
download_file_railway(s, j, ok) ==
    LET k == ProcessedKey(j)
        s1 == get_state(s, k)
    IN  IF ~get_found(s, k, ok)
        THEN [s1 EXCEPT !.resp = Resp("download_railway", j, 404, DownloadNotFound)]
        ELSE LET d == get_value(s, k, ok) IN
             \* processed_data["output_path"] / ["file_info"]: KeyError -> 500
             IF d.output_path = NoPath \/ d.file_info = NoInfo
             THEN [s1 EXCEPT !.resp = Resp("download_railway", j, 500, "Download failed")]
             ELSE IF d.output_path \notin s1.files
             THEN [s1 EXCEPT !.resp = Resp("download_railway", j, 404, InputNotFound)]
             \* processed_data["expires_at"]: no handler writes that field
             ELSE [s1 EXCEPT !.resp = Resp("download_railway", j, 500, "Download failed")]

\* ---------------------------------------------------------- environment
\* The clock advances by d hours; Redis drops the keys whose time is up.
tick(s, d) ==
    [s EXCEPT !.now = @ + d, !.ticks = @ + 1,
              !.store = IF s.redis_pool
                        THEN [k \in Keys |->
                                IF Present(s.store[k]) /\ s.store[k].expires_at <= s.now + d
                                THEN NoEntry ELSE s.store[k]]
                        ELSE @]

\* A file is removed from disk by something other than the handlers.
remove_file(s, path) == [s EXCEPT !.files = @ \ {path}, !.removals = @ + 1]

\* --------------------------------- segments chained without suspension
\* The whole of start_processing
start_processing(s, c, j, tool_type, ok) ==
    LET s1 == start_get(s, c, j, tool_type, ok)
    IN  IF s1.call[c].pc = "s_put" THEN start_put(s1, c, ok) ELSE s1

\* process_file_background up to the await of process_file
bg_begin(s, c, ok) ==
    LET s1 == bg_get(s, c, ok)
    IN  IF s1.call[c].pc = "b_put" THEN bg_put(s1, c, ok) ELSE s1

\* the except branch of process_file_background
bg_fail(s, c, ok) ==
    LET s1 == bg_fail_get(s, c, ok)
    IN  IF s1.call[c].pc = "f_put" THEN bg_fail_put(s1, c, ok) ELSE s1

\* The whole of download_file
download_file(s, j, ok) ==
    LET s1 == download_check(s, j, ok)
    IN  IF s1.dl.pc = "getsize" THEN download_send(s1, ok) ELSE s1

\* --------------------------------------------------- the state machine
State ==
    [phase |-> phase, redis_pool |-> redis_pool, store |-> store, heap |-> heap,
     files |-> files, call |-> call, dl |-> dl, now |-> now, ticks |-> ticks,
     removals |-> removals, uploads |-> uploads, resp |-> resp,
     last_put |-> last_put, acked |-> acked, usage |-> usage]

\* A step that returns no response leaves none behind: resp is the response
\* of the request that returned in the last step.
Silent(s) == [s EXCEPT !.resp = NoResp]

Becomes(s) ==
    /\ phase' = s.phase
    /\ redis_pool' = s.redis_pool
    /\ store' = s.store
    /\ heap' = s.heap
    /\ files' = s.files
    /\ call' = s.call
    /\ dl' = s.dl
    /\ now' = s.now
    /\ ticks' = s.ticks
    /\ removals' = s.removals
    /\ uploads' = s.uploads
    /\ resp' = s.resp
    /\ last_put' = s.last_put
    /\ acked' = s.acked
    /\ usage' = s.usage

\* SessionManager.__init__, nothing uploaded, no request made
InitState(pool) ==
    [phase |-> "startup", redis_pool |-> pool,
     store |-> [k \in Keys |-> NoEntry], heap |-> [j \in Jobs |-> NoData],
     files |-> {}, call |-> [c \in Calls |-> IdleCall], dl |-> IdleDl,
     now |-> 0, ticks |-> 0, removals |-> 0, uploads |-> 0, resp |-> NoResp,
     last_put |-> [k \in Keys |-> NoPut], acked |-> {}, usage |-> <<>>]

Init ==
    /\ phase = "startup"
    /\ redis_pool = FALSE
    /\ store = [k \in Keys |-> NoEntry]
    /\ heap = [j \in Jobs |-> NoData]
    /\ files = {}
    /\ call = [c \in Calls |-> IdleCall]
    /\ dl = IdleDl
    /\ now = 0
    /\ ticks = 0
    /\ removals = 0
    /\ uploads = 0
    /\ resp = NoResp
    /\ last_put = [k \in Keys |-> NoPut]
    /\ acked = {}
    /\ usage = <<>>
    /\ twin = InitState(FALSE)
    /\ calc = NoCalc

\* Whether a Redis call of this step may raise
Oks(s) == IF s.redis_pool THEN BOOLEAN ELSE {TRUE}

\* The event loop is free: no handler is between two statements that do
\* not suspend, and the response of the handler that returned has been sent.
LoopFree == phase = "serving" /\ dl.pc = "idle" /\ resp = NoResp

\* The call slot a new start_processing request takes
FreeCalls == {c \in Calls : call[c].pc = "idle"}
NextCall == CHOOSE c \in FreeCalls : \A x \in FreeCalls : c <= x

\* SessionManager.connect: the pool when the ping succeeds, None otherwise
\* (no module of the repository calls it; the deployment may, before it serves)
connect ==
    /\ phase = "startup"
    /\ \E ok \in BOOLEAN :
          Becomes(Silent([State EXCEPT !.phase = "serving", !.redis_pool = ok]))
    /\ UNCHANGED <<twin, calc>>

Upload ==
    /\ LoopFree
    /\ uploads < MaxUploads
    /\ \E tool_type \in UploadTools, content_type \in ContentTypes,
          ok \in Oks(State), tracked \in Oks(State) :
          Becomes(upload_file(State, tool_type, content_type, ok, tracked))
    /\ UNCHANGED <<twin, calc>>

\* A start_processing request arrives: on Redis it runs to its first await,
\* on the in-process backend to its return.
StartProcessing ==
    /\ LoopFree
    /\ FreeCalls # {}
    /\ \E j \in Jobs, tool_type \in RequestTools, ok \in Oks(State) :
          Becomes(IF redis_pool
                  THEN start_get(State, NextCall, j, tool_type, ok)
                  ELSE start_processing(State, NextCall, j, tool_type, ok))
    /\ UNCHANGED <<twin, calc>>

StartStore ==
    /\ LoopFree
    /\ \E c \in Calls, ok \in Oks(State) :
          /\ call[c].pc = "s_put"
          /\ Becomes(start_put(State, c, ok))
    /\ UNCHANGED <<twin, calc>>

\* The background task starts to run
BgBegin ==
    /\ LoopFree
    /\ \E c \in Calls, ok \in Oks(State) :
          /\ call[c].pc = "queued"
          /\ Becomes(Silent(IF redis_pool THEN bg_get(State, c, ok) ELSE bg_begin(State, c, ok)))
    /\ UNCHANGED <<twin, calc>>

BgStore ==
    /\ LoopFree
    /\ \E c \in Calls, ok \in Oks(State) :
          /\ call[c].pc = "b_put"
          /\ Becomes(Silent(bg_put(State, c, ok)))
    /\ UNCHANGED <<twin, calc>>

\* The transform ends, in the thread pool or the subprocess
ProcessFile ==
    /\ phase = "serving"
    /\ \E c \in Calls :
          /\ call[c].pc = "transform"
          /\ \E outcome \in process_file_outcomes(State, c) :
                Becomes(Silent(process_file(State, c, outcome)))
    /\ UNCHANGED <<twin, calc>>

BgComplete ==
    /\ LoopFree
    /\ \E c \in Calls, ok \in Oks(State) :
          /\ call[c].pc = "c_put"
          /\ Becomes(Silent(bg_complete(State, c, ok)))
    /\ UNCHANGED <<twin, calc>>

BgFail ==
    /\ LoopFree
    /\ \E c \in Calls, ok \in Oks(State) :
          /\ call[c].pc = "f_get"
          /\ Becomes(Silent(IF redis_pool THEN bg_fail_get(State, c, ok) ELSE bg_fail(State, c, ok)))
    /\ UNCHANGED <<twin, calc>>

BgFailStore ==
    /\ LoopFree
    /\ \E c \in Calls, ok \in Oks(State) :
          /\ call[c].pc = "f_put"
          /\ Becomes(Silent(bg_fail_put(State, c, ok)))
    /\ UNCHANGED <<twin, calc>>

GetStatus ==
    /\ LoopFree
    /\ \E j \in Jobs, ok \in Oks(State) :
          Becomes(get_processing_status(State, j, ok))
    /\ UNCHANGED <<twin, calc>>

Download ==
    /\ LoopFree
    /\ Len(usage) < MaxUsage + uploads
    /\ \E j \in Jobs, ok \in Oks(State) :
          Becomes(download_check(State, j, ok))
    /\ UNCHANGED <<twin, calc>>

DownloadSend ==
    /\ dl.pc = "getsize"
    /\ \E tracked \in Oks(State) : Becomes(download_send(State, tracked))
    /\ UNCHANGED <<twin, calc>>

DownloadRailway ==
    /\ LoopFree
    /\ \E j \in Jobs, ok \in Oks(State) :
          Becomes(download_file_railway(State, j, ok))
    /\ UNCHANGED <<twin, calc>>

Tick ==
    /\ phase = "serving"
    /\ ticks < MaxTicks
    /\ \E d \in TickSteps : Becomes(Silent(tick(State, d)))
    /\ UNCHANGED <<twin, calc>>

RemoveFile ==
    /\ phase = "serving"
    /\ removals < MaxRemovals
    /\ \E path \in files : Becomes(Silent(remove_file(State, path)))
    /\ UNCHANGED <<twin, calc>>

\* The response of the handler that returned is sent
send_response ==
    /\ resp # NoResp
    /\ Becomes(Silent(State))
    /\ UNCHANGED <<twin, calc>>

Next ==
    \/ connect
    \/ send_response
    \/ Upload
    \/ StartProcessing
    \/ StartStore
    \/ BgBegin
    \/ BgStore
    \/ ProcessFile
    \/ BgComplete
    \/ BgFail
    \/ BgFailStore
    \/ GetStatus
    \/ Download
    \/ DownloadSend
    \/ DownloadRailway
    \/ Tick
    \/ RemoveFile

Spec == Init /\ [][Next]_vars

\* --------------------------------------- the two backends side by side
\* The same requests, task steps and clock advances reach a system on Redis
\* (the variables) and a system on the in-process dictionary (twin).  No
\* store call fails, and a handler runs from one await that suspends on
\* both backends (the transform) to the next, which is a schedule of either
\* system.
EquivInit ==
    /\ phase = "serving"
    /\ redis_pool = TRUE
    /\ store = [k \in Keys |-> NoEntry]
    /\ heap = [j \in Jobs |-> NoData]
    /\ files = {}
    /\ call = [c \in Calls |-> IdleCall]
    /\ dl = IdleDl
    /\ now = 0
    /\ ticks = 0
    /\ removals = 0
    /\ uploads = 0
    /\ resp = NoResp
    /\ last_put = [k \in Keys |-> NoPut]
    /\ acked = {}
    /\ usage = <<>>
    /\ twin = [InitState(FALSE) EXCEPT !.phase = "serving"]
    /\ calc = NoCalc

\* Both responses of the last request have been sent
BothFree == resp = NoResp /\ twin.resp = NoResp

\* The task of call c is at the same place in both systems
BothAt(c, pc) == call[c].pc = pc /\ twin.call[c].pc = pc

BothUpload ==
    /\ BothFree
    /\ uploads < MaxUploads
    /\ \E tool_type \in UploadTools, content_type \in ContentTypes :
          /\ Becomes(upload_file(State, tool_type, content_type, TRUE, TRUE))
          /\ twin' = upload_file(twin, tool_type, content_type, TRUE, TRUE)
          /\ calc' = calc

BothStartProcessing ==
    /\ BothFree
    /\ FreeCalls # {}
    /\ twin.call[NextCall].pc = "idle"
    /\ \E j \in Jobs, tool_type \in RequestTools :
          /\ Becomes(start_processing(State, NextCall, j, tool_type, TRUE))
          /\ twin' = start_processing(twin, NextCall, j, tool_type, TRUE)
          /\ calc' = calc

BothBgBegin ==
    /\ BothFree
    /\ \E c \in Calls :
          /\ BothAt(c, "queued")
          /\ Becomes(Silent(bg_begin(State, c, TRUE)))
          /\ twin' = Silent(bg_begin(twin, c, TRUE))
          /\ calc' = calc

BothProcessFile ==
    \E c \in Calls :
        /\ BothAt(c, "transform")
        /\ \E outcome \in process_file_outcomes(State, c) \cap process_file_outcomes(twin, c) :
              /\ Becomes(Silent(process_file(State, c, outcome)))
              /\ twin' = Silent(process_file(twin, c, outcome))
              /\ calc' = calc

BothBgComplete ==
    /\ BothFree
    /\ \E c \in Calls :
          /\ BothAt(c, "c_put")
          /\ Becomes(Silent(bg_complete(State, c, TRUE)))
          /\ twin' = Silent(bg_complete(twin, c, TRUE))
          /\ calc' = calc

BothBgFail ==
    /\ BothFree
    /\ \E c \in Calls :
          /\ BothAt(c, "f_get")
          /\ Becomes(Silent(bg_fail(State, c, TRUE)))
          /\ twin' = Silent(bg_fail(twin, c, TRUE))
          /\ calc' = calc

BothGetStatus ==
    /\ BothFree
    /\ \E j \in Jobs : /\ Becomes(get_processing_status(State, j, TRUE))
                       /\ twin' = get_processing_status(twin, j, TRUE)
                       /\ calc' = calc

BothDownload ==
    /\ BothFree
    /\ Len(usage) < MaxUsage + uploads
    /\ Len(twin.usage) < MaxUsage + twin.uploads
    /\ \E j \in Jobs : /\ Becomes(download_file(State, j, TRUE))
                       /\ twin' = download_file(twin, j, TRUE)
                       /\ calc' = calc

BothTick ==
    /\ ticks < MaxTicks
    /\ \E d \in TickSteps : /\ Becomes(Silent(tick(State, d)))
                            /\ twin' = Silent(tick(twin, d))
                            /\ calc' = calc

BothSendResponse ==
    /\ ~BothFree
    /\ Becomes(Silent(State))
    /\ twin' = Silent(twin)
    /\ calc' = calc

EquivNext ==
    \/ BothUpload
    \/ BothStartProcessing
    \/ BothBgBegin
    \/ BothProcessFile
    \/ BothBgComplete
    \/ BothBgFail
    \/ BothGetStatus
    \/ BothDownload
    \/ BothTick
    \/ BothSendResponse

EquivSpec == EquivInit /\ [][EquivNext]_vars

\* ------------------------------------------- the session manager alone
\* The operations of SessionManager on their own, called in any order on
\* either backend: delete_session has no caller among the handlers.
StoreInit ==
    /\ phase = "serving"
    /\ redis_pool \in BOOLEAN
    /\ store = [k \in Keys |-> NoEntry]
    /\ heap = [j \in Jobs |-> NoData]
    /\ files = {}
    /\ call = [c \in Calls |-> IdleCall]
    /\ dl = IdleDl
    /\ now = 0
    /\ ticks = 0
    /\ removals = 0
    /\ uploads = 0
    /\ resp = NoResp
    /\ last_put = [k \in Keys |-> NoPut]
    /\ acked = {}
    /\ usage = <<>>
    /\ twin = InitState(FALSE)
    /\ calc = NoCalc

\* The dictionaries stored for job j
StoreValues(j) ==
    {new_session(j, IMAGE_COMPRESS), processing_started(new_session(j, IMAGE_COMPRESS))}

\* The answer of a session manager call, for the caller
Returned(op, j, result) == Resp(op, j, 0, IF result THEN "True" ELSE "False")

StorePut ==
    /\ \E j \in Jobs, expire_hours \in {TEMP_FILE_EXPIRE_HOURS, PROCESSED_FILE_EXPIRE_HOURS},
          ok \in Oks(State) :
          \E data \in StoreValues(j) :
             Becomes(IF ok
                     THEN [store_session_data(
                               [State EXCEPT !.heap[j] = IF redis_pool THEN @ ELSE data],
                               SessionKey(j), j, data, expire_hours)
                           EXCEPT !.resp = Returned("store_session_data", j, TRUE)]
                     ELSE [State EXCEPT !.resp = Returned("store_session_data", j, FALSE)])
    /\ UNCHANGED <<twin, calc>>

StoreGet ==
    /\ \E j \in Jobs, ok \in Oks(State) :
          Becomes([get_state(State, SessionKey(j))
                   EXCEPT !.resp = Returned("get_session_data", j,
                                            get_found(State, SessionKey(j), ok))])
    /\ UNCHANGED <<twin, calc>>

StoreDelete ==
    /\ \E j \in Jobs, ok \in Oks(State) :
          Becomes([delete_session_state(State, SessionKey(j), ok)
                   EXCEPT !.resp = Returned("delete_session", j,
                                            delete_session_result(State, SessionKey(j), ok)),
                          !.last_put[SessionKey(j)] =
                              IF Present(delete_session_state(State, SessionKey(j), ok)
                                            .store[SessionKey(j)])
                              THEN @ ELSE NoPut])
    /\ UNCHANGED <<twin, calc>>

StoreTick ==
    /\ ticks < MaxTicks
    /\ \E d \in TickSteps : Becomes(Silent(tick(State, d)))
    /\ UNCHANGED <<twin, calc>>

StoreNext ==
    \/ StorePut
    \/ StoreGet
    \/ StoreDelete
    \/ StoreTick

StoreSpec == StoreInit /\ [][StoreNext]_vars

\* ------------------------------------- the file_info of process_file alone
\* process_file from the two getsize calls on, for any pair of file sizes.
RatioInit ==
    /\ phase = "serving"
    /\ redis_pool = FALSE
    /\ store = [k \in Keys |-> NoEntry]
    /\ heap = [j \in Jobs |-> NoData]
    /\ files = {}
    /\ call = [c \in Calls |-> IdleCall]
    /\ dl = IdleDl
    /\ now = 0
    /\ ticks = 0
    /\ removals = 0
    /\ uploads = 0
    /\ resp = NoResp
    /\ last_put = [k \in Keys |-> NoPut]
    /\ acked = {}
    /\ usage = <<>>
    /\ twin = InitState(FALSE)
    /\ \E original_size \in 0..MaxSize, processed_size \in 0..MaxSize :
          calc = [NoCalc EXCEPT !.original_size = original_size,
                                !.processed_size = processed_size]

Held == <<phase, redis_pool, store, heap, files, call, dl, now, ticks, removals,
          uploads, resp, last_put, acked, usage, twin>>

\* compression_ratio = ...
compute_ratio ==
    /\ calc.pc = "sizes"
    /\ calc' = [calc EXCEPT !.compression_ratio = ratio_of(calc.original_size,
                                                           calc.processed_size),
                            !.pc = "ratio"]
    /\ UNCHANGED Held

\* file_info = {..., "compression_ratio": max(0, compression_ratio), ...}
build_file_info ==
    /\ calc.pc = "ratio"
    /\ calc' = [calc EXCEPT !.compression_ratio = max_zero(@), !.pc = "file_info"]
    /\ UNCHANGED Held

RatioNext ==
    \/ compute_ratio
    \/ build_file_info

RatioSpec == RatioInit /\ [][RatioNext]_vars

\* ------------------------------------------------ two jobs side by side
\* The system after connect and one upload for each of the two job ids, both
\* answered, and every request and task step from there on.
PairInit ==
    /\ phase = "serving"
    /\ \E pool \in BOOLEAN, t1 \in UploadTools, t2 \in UploadTools,
          c1 \in ContentTypes, c2 \in ContentTypes :
          LET s0 == [InitState(pool) EXCEPT !.phase = "serving"]
              s1 == upload_file(s0, t1, c1, TRUE, TRUE)
              s2 == Silent(upload_file(s1, t2, c2, TRUE, TRUE))
          IN  /\ s2.uploads = 2
              /\ redis_pool = s2.redis_pool
              /\ store = s2.store
              /\ heap = s2.heap
              /\ files = s2.files
              /\ call = s2.call
              /\ dl = s2.dl
              /\ now = s2.now
              /\ ticks = s2.ticks
              /\ removals = s2.removals
              /\ uploads = s2.uploads
              /\ resp = s2.resp
              /\ last_put = s2.last_put
              /\ acked = s2.acked
              /\ usage = s2.usage
    /\ twin = InitState(FALSE)
    /\ calc = NoCalc

PairNext ==
    \/ send_response
    \/ StartProcessing
    \/ StartStore
    \/ BgBegin
    \/ BgStore
    \/ ProcessFile
    \/ BgComplete
    \/ BgFail
    \/ BgFailStore
    \/ GetStatus
    \/ Download
    \/ DownloadSend
    \/ Tick

PairSpec == PairInit /\ [][PairNext]_vars

\* ====================================================================
\* Properties
\* ====================================================================

\* The record the store holds for job j (meaningful when the entry is there)
record_of(s, j) ==
    LET e == s.store[SessionKey(j)] IN
    IF s.redis_pool THEN e.data ELSE s.heap[e.ref]

HasEntry(s, j) == Present(s.store[SessionKey(j)])

\* get_session_data would return the record of job j
Live(s, j) == get_found(s, SessionKey(j), TRUE)

\* The background tasks of job j that are scheduled or running
InFlight(j) ==
    {c \in Calls : call[c].job = j
                   /\ call[c].pc \in {"queued", "b_put", "transform", "c_put",
                                      "f_get", "f_put"}}

\* A change of state along QUEUED -> PROCESSING -> {COMPLETED, FAILED}
Forward(a, b) ==
    \/ a = b
    \/ a = QUEUED /\ b \in {PROCESSING, FAILED}
    \/ a = PROCESSING /\ b \in {COMPLETED, FAILED}

\* C1: the state stored for a job only moves along QUEUED -> PROCESSING ->
\* {COMPLETED, FAILED}; no step replaces COMPLETED or FAILED by another state.
C1_StateOnlyForward ==
    [][\A j \in Jobs :
          (HasEntry(State, j) /\ HasEntry(State', j))
              => Forward(record_of(State, j).status, record_of(State', j).status)]_vars

\* C2: at most one background task is scheduled or running for a job id.
C2_AtMostOneInFlight ==
    \A j \in Jobs : Cardinality(InFlight(j)) <= 1

\* C3: a status request made after a start request of the same job returned
\* success never answers QUEUED.
C3_NoStaleQueued ==
    (resp.op = "status" /\ resp.code = 200 /\ resp.job \in acked)
        => resp.status # QUEUED

C3_Witness ==
    resp.op = "status" /\ resp.code = 200 /\ resp.job \in acked

\* C4: when the transform raised, the background task does not return before
\* the record of its job holds FAILED with an error detail.
C4_RaiseEndsFailed ==
    [][\A c \in Calls :
          (/\ call[c].pc \in {"f_get", "f_put"}
           /\ call[c].err = ProcessError
           /\ call'[c].pc = "done"
           /\ HasEntry(State', call[c].job))
              => (/\ record_of(State', call[c].job).status = FAILED
                  /\ record_of(State', call[c].job).error # None)]_vars

\* C5: a get of a key returns exactly the dictionary of the last successful
\* put while its ttl has not elapsed, and nothing once it has, on either
\* backend.
C5_PutGetContract ==
    \A k \in Keys :
        last_put[k] # NoPut =>
            /\ now < last_put[k].expires_at
                  => (/\ get_found(State, k, TRUE)
                      /\ get_value(State, k, TRUE) = last_put[k].value)
            /\ now > last_put[k].expires_at => ~get_found(State, k, TRUE)

\* A start_processing request for job j arrives and runs to its first
\* suspension or to its return.
StartArrives(j) ==
    /\ resp = NoResp
    /\ \/ /\ resp'.op = "start"
          /\ resp'.job = j
          /\ \A c \in Calls : call[c].pc = "s_put" => call'[c] = call[c]
       \/ \E c \in Calls : call[c].pc = "idle" /\ call'[c].pc # "idle" /\ call'[c].job = j

\* C6: a status request gets the same answer from the system on Redis and
\* from the system on the in-process dictionary after the same history.
C6_SameStatusRecords ==
    (resp.op = "status" \/ twin.resp.op = "status") => resp = twin.resp

\* C7: a start_processing request for a job id the store does not hold, or
\* holds expired, answers 404 "Session not found or expired", stores no
\* record for the id and schedules no background task.
C7_StartUnknownIsNotFound ==
    [][\A j \in Jobs :
          (~Live(State, j) /\ StartArrives(j))
              => (/\ resp'.code = 404
                  /\ resp'.detail = SessionNotFound
                  /\ ~HasEntry(State', j)
                  /\ last_put' = last_put
                  /\ heap' = heap
                  /\ call' = call)]_vars

C7_Witness ==
    /\ resp.op = "start"
    /\ resp.detail = SessionNotFound
    /\ resp.job <= uploads
    /\ ~Live(State, resp.job)

\* C8: a stored record with an output location has state COMPLETED.
C8_OutputOnlyCompleted ==
    \A j \in Jobs :
        (HasEntry(State, j) /\ record_of(State, j).output_path # NoPath)
            => record_of(State, j).status = COMPLETED

\* C9: a stored record in state FAILED has an error detail.
C9_FailedHasError ==
    \A j \in Jobs :
        (HasEntry(State, j) /\ record_of(State, j).status = FAILED)
            => record_of(State, j).error # None

C9_Witness ==
    \E j \in Jobs : HasEntry(State, j) /\ record_of(State, j).status = FAILED

\* C10: a download of a COMPLETED job whose artifact is gone, removed before
\* or during the request, answers 404 and not an internal error.
C10_MissingArtifactIs404 ==
    (/\ resp.op = "download"
     /\ Live(State, resp.job)
     /\ record_of(State, resp.job).status = COMPLETED
     /\ record_of(State, resp.job).output_path \notin files)
        => resp.code = 404

\* A download request for job j arrives and is answered without suspension.
DownloadAnswered(j) ==
    /\ resp = NoResp
    /\ dl.pc = "idle"
    /\ resp'.op \in {"download", "download_railway"}
    /\ resp'.job = j

\* C11: a download of a job whose store entry is still there although its
\* expiry has passed answers 410, and leaves the artifact deleted and the
\* entry evicted.
C11_ExpiredDownloadIsGone ==
    [][\A j \in Jobs :
          (/\ HasEntry(State, j)
           /\ ~Live(State, j)
           /\ record_of(State, j).output_path \in files
           /\ DownloadAnswered(j))
              => (/\ resp'.code = 410
                  /\ ~HasEntry(State', j)
                  /\ record_of(State, j).output_path \notin files')]_vars

\* A download request is answered in this step
DownloadReturns ==
    /\ resp = NoResp
    /\ resp'.op \in {"download", "download_railway"}

\* This step added exactly one usage event, for the job, the tool type and
\* the file the download request read from the record
TrackedOnce ==
    /\ Len(usage') = Len(usage) + 1
    /\ LET e == IF redis_pool THEN Head(usage') ELSE usage'[Len(usage')] IN
          /\ e.session_id = resp'.job
          /\ e.tool_type = dl.tool
          /\ e.file_size = dl.path
    /\ IF redis_pool THEN Tail(usage') = usage
                     ELSE SubSeq(usage', 1, Len(usage)) = usage

\* C12 as claimed: every download that succeeds adds exactly one usage
\* event with the job id, the tool type and the size of the file served;
\* a download that fails adds none.
C12_EveryDownloadTracked ==
    [][DownloadReturns
          => IF resp'.code = 200 THEN TrackedOnce ELSE usage' = usage]_vars

\* C12 amended: a download that succeeds adds exactly one such usage event,
\* or none when the push to the Redis list raised (the download is served
\* all the same); a download that fails adds none.
C12_DownloadTrackedUnlessPushFails ==
    [][DownloadReturns
          => IF resp'.code = 200
             THEN TrackedOnce \/ (redis_pool /\ usage' = usage)
             ELSE usage' = usage]_vars

C12_Witness ==
    /\ resp.op = "download"
    /\ resp.code = 200
    /\ \E i \in 1..Len(usage) :
          usage[i].session_id = resp.job /\ usage[i].file_size # InputPath(resp.job)

\* C13: when the write of start_processing fails, the request is answered
\* with an error, no background task is scheduled and the store holds what
\* it held before.
C13_StartWriteFailureSurfaces ==
    \A c \in Calls :
        (redis_pool /\ call[c].pc = "s_put")
            => LET s == start_put(State, c, FALSE) IN
               /\ s.resp.op = "start"
               /\ s.resp.code = 500
               /\ s.store = store
               /\ s.heap = heap
               /\ s.call[c] = IdleCall
               /\ s.acked = acked

C13_Witness ==
    resp.op = "start" /\ resp.code = 500 /\ HasEntry(State, resp.job)

\* C14: a download of a job the background task stored as COMPLETED, with
\* the entry not expired and the artifact on disk, finds the record under
\* the key the task wrote and serves the artifact.
C14_DownloadFindsCompleted ==
    (/\ resp.op \in {"download", "download_railway"}
     /\ Live(State, resp.job)
     /\ record_of(State, resp.job).status = COMPLETED
     /\ record_of(State, resp.job).output_path \in files)
        => resp.code = 200

\* C15: a background task whose transform did not return and was cut by
\* its timeout finishes only with the record of its job in state FAILED.
C15_TimeoutEndsFailed ==
    [][\A c \in Calls :
          (/\ call[c].pc \in {"f_get", "f_put"}
           /\ call[c].err = TimedOut
           /\ call'[c].pc = "done"
           /\ HasEntry(State', call[c].job))
              => record_of(State', call[c].job).status = FAILED]_vars

\* C16: delete_session returns True exactly when it removed an entry that
\* get_session_data would have returned, and after it get_session_data
\* returns None, on either backend.
C16_DeleteReportsRemoval ==
    \A j \in Jobs :
        LET k == SessionKey(j) IN
        /\ delete_session_result(State, k, TRUE) = get_found(State, k, TRUE)
        /\ ~get_found(delete_session_state(State, k, TRUE), k, TRUE)

\* C17: once connect has failed and the session manager runs on the
\* in-process dictionary, no later step makes it use Redis.
C17_FallbackIsPermanent ==
    [][(phase = "serving" /\ ~redis_pool) => (phase' = "serving" /\ ~redis_pool')]_vars

C17_Witness ==
    /\ phase = "serving"
    /\ ~redis_pool
    /\ \E j \in Jobs : HasEntry(State, j) /\ record_of(State, j).status = COMPLETED

\* C18: an upload whose tool type is outside the fixed set of tool types, or
\* whose content type its tool type does not allow, is rejected before a
\* record is written: every record of the store carries a tool type of the
\* fixed set.
C18_InvalidUploadRejected ==
    \A j \in Jobs : HasEntry(State, j) => record_of(State, j).tool_type \in ToolType

\* C19: the compression_ratio of the file_info process_file returns is never
\* negative, whatever the two sizes, processed_size above original_size and
\* original_size 0 included.
C19_RatioNeverNegative ==
    calc.pc = "file_info" =>
        /\ calc.compression_ratio.den > 0
        /\ calc.compression_ratio.num >= 0
        /\ (calc.original_size > 0 /\ calc.processed_size <= calc.original_size) =>
              calc.compression_ratio = ratio_of(calc.original_size, calc.processed_size)

C19_Witness ==
    /\ calc.pc = "file_info"
    /\ calc.original_size > 0
    /\ calc.processed_size > calc.original_size

\* C20: when start_processing is answered "File not found" because the input
\* file of an existing record is missing, the record is FAILED and carries an
\* error; it is not left PROCESSING with no task scheduled.
C20_MissingInputEndsFailed ==
    (/\ resp.op = "start"
     /\ resp.detail = InputNotFound
     /\ HasEntry(State, resp.job))
    => (/\ record_of(State, resp.job).status = FAILED
        /\ record_of(State, resp.job).error # None)

\* A record is written under the key of job j in this step
Written(j) ==
    /\ last_put'[SessionKey(j)] # last_put[SessionKey(j)]
    /\ last_put'[SessionKey(j)] # NoPut

\* C21: every write of a job record uses the expiry that matches its
\* content: TEMP_FILE_EXPIRE_HOURS for a record without an output location,
\* PROCESSED_FILE_EXPIRE_HOURS for a record with one.
C21_ExpiryMatchesContent ==
    [][\A j \in Jobs :
          Written(j) =>
              last_put'[SessionKey(j)].expires_at - now =
                  IF last_put'[SessionKey(j)].value.output_path # NoPath
                  THEN PROCESSED_FILE_EXPIRE_HOURS
                  ELSE TEMP_FILE_EXPIRE_HOURS]_vars

\* A step of get_processing_status or of a download_file handler
ReadStep ==
    \/ resp = NoResp /\ resp'.op \in {"status", "download", "download_railway"}
    \/ dl'.pc # dl.pc

\* C22: get_processing_status and download_file never write a job record:
\* such a step leaves every entry of the store as it was, or removes one
\* whose expiry has passed, and leaves the dictionaries untouched; a status
\* request repeated at once gets the answer the first one got.
C22_ReadsDoNotWrite ==
    [][ReadStep =>
          /\ \A k \in Keys :
                \/ store'[k] = store[k]
                \/ Present(store[k]) /\ ~(store[k].expires_at > now) /\ store'[k] = NoEntry
          /\ heap' = heap
          /\ last_put' = last_put
          /\ now' = now
          /\ (resp'.op = "status" /\ resp'.code = 200)
                => get_processing_status(State', resp'.job, TRUE).resp = resp']_vars

C22_Witness ==
    /\ resp.op = "status"
    /\ resp.code = 200
    /\ resp.status \in {COMPLETED, FAILED}

\* C23: a stored record in state COMPLETED has progress 100, an output
\* location and a file_info.
C23_CompletedIsWhole ==
    \A j \in Jobs :
        (HasEntry(State, j) /\ record_of(State, j).status = COMPLETED)
            => /\ record_of(State, j).progress = 100
               /\ record_of(State, j).output_path # NoPath
               /\ record_of(State, j).file_info # NoInfo

\* C24: the transform a background task runs for a job is the one of the
\* tool type stored in the record of the job.
C24_TransformOfStoredTool ==
    \A c \in Calls :
        (call[c].pc = "transform" /\ HasEntry(State, call[c].job))
            => call[c].tool = record_of(State, call[c].job).tool_type

\* The background tasks this step schedules
Scheduled == {c \in Calls : call'[c].pc = "queued" /\ call[c].pc # "queued"}

\* C25: a start_processing call that answers success has scheduled exactly
\* one background task, for its job; one that answers an error has scheduled
\* none; and nothing else schedules a task.
C25_OneTaskPerStart ==
    [][/\ (resp = NoResp /\ resp'.op = "start")
           => IF resp'.code = 200
              THEN /\ Cardinality(Scheduled) = 1
                   /\ \A c \in Scheduled : call'[c].job = resp'.job
              ELSE Scheduled = {}
       /\ Scheduled # {} => (resp = NoResp /\ resp'.op = "start" /\ resp'.code = 200)]_vars

C25_Witness ==
    /\ resp.op = "start"
    /\ resp.code = 200
    /\ \E c \in Calls : call[c].pc = "queued" /\ call[c].job = resp.job
    /\ \E c \in Calls : call[c].pc \in {"transform", "done"}

\* C26: on the in-process backend, right after a store_session_data the
\* dictionary holds no entry whose expiry lies before the current time.
C26_PutEvictsExpired ==
    (~redis_pool /\ resp.op = "store_session_data")
        => \A k \in Keys : Present(store[k]) => ~(store[k].expires_at < now)

C26_Witness ==
    /\ ~redis_pool
    /\ resp.op = "store_session_data"
    /\ \E k \in Keys : /\ last_put[k] # NoPut
                        /\ last_put[k].expires_at < now
                        /\ ~Present(store[k])
                        /\ k # SessionKey(resp.job)

\* The request answered 404 and left the store, the dictionaries and the
\* tasks of s as they are
NotFoundUnchanged(s) ==
    /\ s.resp.code = 404
    /\ s.store = store
    /\ s.heap = heap
    /\ s.last_put = last_put
    /\ s.call = call
    /\ s.dl = dl
    /\ s.files = files

\* C27: when Redis raises during get_session_data, get_processing_status,
\* start_processing and download_file answer 404, and the request writes and
\* deletes no record.
C27_ReadFailureIsNotFound ==
    redis_pool =>
        \A j \in Jobs :
            /\ NotFoundUnchanged(get_processing_status(State, j, FALSE))
            /\ NotFoundUnchanged(download_check(State, j, FALSE))
            /\ NotFoundUnchanged(download_file_railway(State, j, FALSE))
            /\ \A c \in FreeCalls, tool_type \in RequestTools :
                  NotFoundUnchanged(start_get(State, c, j, tool_type, FALSE))

C27_Witness ==
    /\ redis_pool
    /\ resp.op \in {"status", "start", "download"}
    /\ resp.code = 404
    /\ resp.detail \in {SessionNotFound, DownloadNotFound}
    /\ Live(State, resp.job)

\* What get_session_data returns for job j in s: found or not, and the value
Got(s, j) == <<get_found(s, SessionKey(j), TRUE), get_value(s, SessionKey(j), TRUE)>>

\* This step belongs to a request or a task of job j
ActsOn(j) ==
    \/ resp = NoResp /\ resp'.op # None /\ resp'.job = j
    \/ \E c \in Calls : call'[c] # call[c] /\ (call[c].job = j \/ call'[c].job = j)
    \/ dl' # dl /\ (dl.job = j \/ dl'.job = j)

\* C28: jobs are independent: a step in which no time passes changes what
\* get_session_data returns for a job only when it is a step of a request
\* or task of that job, and a delete_session of one job changes it for no
\* other, on either backend.
C28_JobsIndependent ==
    [][\A b \in Jobs :
          /\ (now' = now /\ Got(State', b) # Got(State, b)) => ActsOn(b)
          /\ \A a \in Jobs \ {b}, ok \in BOOLEAN :
                Got(delete_session_state(State, SessionKey(a), ok), b) = Got(State, b)]_vars

C28_Witness ==
    /\ ~redis_pool
    /\ now > 0
    /\ \E a \in Jobs, b \in Jobs :
          /\ a # b
          /\ Live(State, a)
          /\ record_of(State, a).status = COMPLETED
          /\ last_put[SessionKey(b)] # NoPut
          /\ ~HasEntry(State, b)

\* A background task of job j takes a step
TaskStep(j) ==
    \E c \in Calls : /\ call[c].job = j
                     /\ call[c].pc \in {"queued", "b_put", "c_put", "f_get", "f_put"}
                     /\ call'[c] # call[c]

\* C29: a job whose entry has expired is not created again: once
\* get_session_data returns None for an uploaded job, no step of a
\* background task still running for it makes it return a record again.
C29_NoResurrection ==
    [][\A j \in Jobs :
          (j <= uploads /\ ~Live(State, j) /\ TaskStep(j)) => ~Live(State', j)]_vars

\* C30: download_file goes on to serve the artifact of a job only when the
\* record it read has state COMPLETED.
C30_ServesOnlyCompleted ==
    [][\A j \in Jobs :
          (dl.pc = "idle" /\ dl'.pc = "getsize" /\ dl'.job = j)
              => record_of(State, j).status = COMPLETED]_vars

\* C31: for image-compress and pdf-compress the body that writes the output
\* has run when the thread-pool call returns: with the input file on disk,
\* process_file can return the output and its file_info, so that the job
\* can end COMPLETED.
C31_CompressionCanReturn ==
    \A c \in Calls :
        (/\ call[c].pc = "transform"
         /\ call[c].tool \in {IMAGE_COMPRESS, PDF_COMPRESS}
         /\ InputPath(call[c].job) \in files)
            => "returns" \in process_file_outcomes(State, c)

====
